---- MODULE Spec2Model ----
(***************************************************************************)
(* The calculator engine of Calculadora-EPI3 (engine.js): a pure reducer    *)
(* from key presses to a CalculatorState.                                   *)
(*                                                                          *)
(* Text (display, rightLabel) is a sequence of one-character strings.       *)
(* A JavaScript Number is a record [k, neg, m, e]:                          *)
(*   k = "fin": the value (-1)^neg * m * 10^e, m a big-endian sequence of   *)
(*              decimal digits without leading or trailing zeros (<<>> is   *)
(*              zero); every arithmetic result is rounded to Prec           *)
(*              significant digits, overflows to Infinity above the largest *)
(*              double and underflows to zero below the smallest one;       *)
(*   k = "inf" / "nan": Infinity (signed by neg) and NaN;                   *)
(*   k = "null": the JavaScript null of an absent numeric field.            *)
(* Zero carries no sign: no engine function tells -0 from 0.                *)
(***************************************************************************)
EXTENDS Integers, Sequences, FiniteSets, TLC

\* ------------------------------------------------------------------------
\* Bounds of the exploration
\* ------------------------------------------------------------------------

\* significant decimal digits kept by one arithmetic operation
Prec == 17

\* key presses explored from the initial state
MaxKeys == 5

\* key presses explored from a long typed display
LongKeys == 3

\* shortest typed display the exploration also starts from
LongLen == 15

\* largest magnitude of an exponent of '^' the model evaluates
MaxExp == 400

\* key presses explored from a pending addition to a power near the largest
\* Number
OverflowKeys == 2

\* digits the keypad offers in the exploration
Digits == {0, 2, 3}

\* ------------------------------------------------------------------------
\* Values computed once
\* ------------------------------------------------------------------------

\* Op applied to the value of v: a const of the source, evaluated where it is
\* declared
Val(v, Op(_)) == CHOOSE r \in {Op(x) : x \in {v}} : TRUE

Val2(v, w, Op(_, _)) == CHOOSE r \in {Op(x, y) : x \in {v}, y \in {w}} : TRUE

\* ------------------------------------------------------------------------
\* Natural numbers as big-endian digit sequences
\* ------------------------------------------------------------------------

Zeros(n) == [i \in 1..n |-> 0]

\* s without its leading zeros
StripLead(s0) ==
    Val(s0, LAMBDA s :
        IF \A i \in 1..Len(s) : s[i] = 0 THEN <<>>
        ELSE SubSeq(s, CHOOSE i \in 1..Len(s) : s[i] # 0 /\ \A j \in 1..(i - 1) : s[j] = 0,
                    Len(s)))

\* s without its trailing zeros
StripTrail(s0) ==
    Val(s0, LAMBDA s :
        IF \A i \in 1..Len(s) : s[i] = 0 THEN <<>>
        ELSE SubSeq(s, 1,
                    CHOOSE i \in 1..Len(s) : s[i] # 0 /\ \A j \in (i + 1)..Len(s) : s[j] = 0))

PadTo(s, n) == IF Len(s) >= n THEN s ELSE Zeros(n - Len(s)) \o s

\* -1, 0, 1 as a < b, a = b, a > b, for digit sequences of one length
LexCmp(a, b) ==
    IF a = b THEN 0
    ELSE LET i == CHOOSE i \in 1..Len(a) : a[i] # b[i] /\ \A j \in 1..(i - 1) : a[j] = b[j]
         IN  IF a[i] < b[i] THEN -1 ELSE 1

\* -1, 0, 1 as a < b, a = b, a > b (both without leading zeros)
NatCmp(a, b) ==
    IF Len(a) < Len(b) THEN -1
    ELSE IF Len(a) > Len(b) THEN 1
    ELSE LexCmp(a, b)

\* Addition, subtraction and multiplication work on limbs of four digits.
ToLimbs(a) ==
    LET n == (Len(a) + 3) \div 4
        p == PadTo(a, 4 * n)
    IN  [j \in 1..n |-> p[4 * j - 3] * 1000 + p[4 * j - 2] * 100
                        + p[4 * j - 1] * 10 + p[4 * j]]

FromLimbs(L0) ==
    Val(L0, LAMBDA L :
        StripLead([p \in 1..(4 * Len(L)) |->
                      (L[(p - 1) \div 4 + 1] \div <<1000, 100, 10, 1>>[((p - 1) % 4) + 1]) % 10]))

\* The loops below work from the last limb to the first; r holds the limbs
\* done so far, led by the carry (or borrow) into the next one.

\* the sum of the limb sequences A and B of one length
RECURSIVE AddLoop(_, _, _)
AddLoop(A, B, r) ==
    IF Len(r) > Len(A) THEN r
    ELSE LET i == Len(A) - Len(r) + 1
             s == A[i] + B[i] + r[1]
         IN  AddLoop(A, B, <<s \div 10000, s % 10000>> \o Tail(r))

NatAdd(a, b) ==
    LET n == IF Len(a) > Len(b) THEN Len(a) ELSE Len(b)
    IN  Val2(ToLimbs(PadTo(a, n)), ToLimbs(PadTo(b, n)),
             LAMBDA A, B : FromLimbs(AddLoop(A, B, <<0>>)))

\* the difference of the limb sequences A and B of one length
RECURSIVE SubLoop(_, _, _)
SubLoop(A, B, r) ==
    IF Len(r) > Len(A) THEN r
    ELSE LET i == Len(A) - Len(r) + 1
             s == A[i] - B[i] - r[1]
         IN  SubLoop(A, B, (IF s < 0 THEN <<1, s + 10000>> ELSE <<0, s>>) \o Tail(r))

\* a - b for a >= b
NatSub(a, b) ==
    Val2(ToLimbs(a), ToLimbs(PadTo(b, Len(a))),
         LAMBDA A, B : FromLimbs(Tail(SubLoop(A, B, <<0>>))))

\* the sum of A[i] * B[k + 1 - i] over the limbs i.. that take part in column k
RECURSIVE ColumnSum(_, _, _, _)
ColumnSum(A, B, k, i) ==
    IF i > Len(A) \/ i > k THEN 0
    ELSE (IF k + 1 - i <= Len(B) THEN A[i] * B[k + 1 - i] ELSE 0)
         + ColumnSum(A, B, k, i + 1)

\* the columns with their carries propagated
RECURSIVE CarryLoop(_, _)
CarryLoop(cols, r) ==
    IF Len(r) > Len(cols) THEN r
    ELSE LET s == cols[Len(cols) - Len(r) + 1] + r[1]
         IN  CarryLoop(cols, <<s \div 10000, s % 10000>> \o Tail(r))

NatMul(a, b) ==
    IF a = <<>> \/ b = <<>> THEN <<>>
    ELSE Val2(ToLimbs(a), ToLimbs(b), LAMBDA A, B :
             Val([k \in 1..(Len(A) + Len(B) - 1) |-> ColumnSum(A, B, k, 1)],
                 LAMBDA cols : FromLimbs(CarryLoop(cols, <<0>>))))

\* how many times b fits in r (0..9), for r < 10 * b, and what is left
Fit(r, b) ==
    Val(CHOOSE d \in 0..9 :
            /\ NatCmp(NatMul(b, <<d>>), r) <= 0
            /\ d = 9 \/ NatCmp(NatMul(b, <<d + 1>>), r) > 0,
        LAMBDA q : [q |-> q, r |-> NatSub(r, NatMul(b, <<q>>))])

\* one step of the long division by b: the digit d is brought down
DivStep(p, d, b) ==
    Val2(p, StripLead(Append(p.r, d)), LAMBDA p0, r :
        Val(Fit(r, b), LAMBDA f : [q |-> Append(p0.q, f.q), r |-> f.r]))

\* the long division of a by b, continued from the partial result p, which
\* holds one quotient digit for every digit of a brought down so far
RECURSIVE DivLoop(_, _, _)
DivLoop(a, b, p) ==
    IF Len(p.q) >= Len(a) - Len(b) + 1 THEN p
    ELSE IF Len(p.q) = Len(a) - Len(b) THEN DivStep(p, a[Len(a)], b)
    ELSE DivLoop(a, b, DivStep(DivStep(p, a[Len(b) + Len(p.q)], b),
                               a[Len(b) + Len(p.q) + 1], b))

\* quotient and remainder of a by b, b # 0
NatDivMod(a, b) ==
    IF Len(a) < Len(b) THEN [q |-> <<>>, r |-> StripLead(a)]
    ELSE Val(DivLoop(a, b, [q |-> <<>>, r |-> StripLead(SubSeq(a, 1, Len(b) - 1))]),
             LAMBDA qr : [q |-> StripLead(qr.q), r |-> qr.r])

RECURSIVE NatToInt(_)
NatToInt(s) ==
    IF s = <<>> THEN 0 ELSE 10 * NatToInt(SubSeq(s, 1, Len(s) - 1)) + s[Len(s)]

RECURSIVE IntToNat(_)
IntToNat(n) == IF n = 0 THEN <<>> ELSE Append(IntToNat(n \div 10), n % 10)

\* ------------------------------------------------------------------------
\* JavaScript Numbers
\* ------------------------------------------------------------------------

null == [k |-> "null", neg |-> FALSE, m |-> <<>>, e |-> 0]

NaN == [k |-> "nan", neg |-> FALSE, m |-> <<>>, e |-> 0]

Infinity(neg) == [k |-> "inf", neg |-> neg, m |-> <<>>, e |-> 0]

Zero == [k |-> "fin", neg |-> FALSE, m |-> <<>>, e |-> 0]

One == [k |-> "fin", neg |-> FALSE, m |-> <<1>>, e |-> 0]

\* the literals 100 and 1e12 of the source
Hundred == [k |-> "fin", neg |-> FALSE, m |-> <<1>>, e |-> 2]

E12 == [k |-> "fin", neg |-> FALSE, m |-> <<1>>, e |-> 12]

\* Number.isFinite
isFinite(n) == n.k = "fin"

IsZero(n) == n.k = "fin" /\ n.m = <<>>

Negate(n) == IF n.k = "fin" /\ n.m = <<>> THEN n ELSE [n EXCEPT !.neg = ~n.neg]

\* Number.MAX_VALUE = 1.7976931348623157e308
MaxMant == <<1, 7, 9, 7, 6, 9, 3, 1, 3, 4, 8, 6, 2, 3, 1, 5, 7>>

\* m * 10^e exceeds Number.MAX_VALUE
Overflows(m, e) ==
    LET n == Len(m) + e
        w == IF Len(m) > Len(MaxMant) THEN Len(m) ELSE Len(MaxMant)
    IN  \/ n > 309
        \/ /\ n = 309
           /\ LexCmp(m \o Zeros(w - Len(m)), MaxMant \o Zeros(w - Len(MaxMant))) > 0

\* a digit sequence and exponent as a Number: trailing zeros moved into the
\* exponent, overflow to Infinity, underflow to zero
Finish(neg, m0, e) ==
    Val(m0, LAMBDA m :
        Val(StripTrail(m), LAMBDA m3 :
            LET e3 == e + (Len(m) - Len(m3))
            IN  IF m3 = <<>> THEN Zero
                ELSE IF Overflows(m3, e3) THEN Infinity(neg)
                ELSE IF Len(m3) + e3 < -323 THEN Zero
                ELSE [k |-> "fin", neg |-> neg, m |-> m3, e |-> e3]))

\* rounding of an exact result to Prec significant digits, ties to even;
\* sticky tells that the exact value lies above the digits given
Round(neg, m0, e, sticky) ==
    Val(StripLead(m0), LAMBDA m :
        IF Len(m) <= Prec THEN Finish(neg, m, e)
        ELSE LET keep == SubSeq(m, 1, Prec)
                 r    == m[Prec + 1]
                 rest == sticky \/ \E i \in (Prec + 2)..Len(m) : m[i] # 0
                 up   == r > 5 \/ (r = 5 /\ (rest \/ keep[Prec] % 2 = 1))
             IN  Finish(neg, IF up THEN NatAdd(keep, <<1>>) ELSE keep,
                        e + Len(m) - Prec))

\* a * b
Mul(x, y) ==
    Val2(x, y, LAMBDA a, b :
        IF a.k = "nan" \/ b.k = "nan" THEN NaN
        ELSE IF a.k = "inf" \/ b.k = "inf"
             THEN (IF IsZero(a) \/ IsZero(b) THEN NaN ELSE Infinity(a.neg # b.neg))
        ELSE IF a.m = <<>> \/ b.m = <<>> THEN Zero
        ELSE Round(a.neg # b.neg, NatMul(a.m, b.m), a.e + b.e, FALSE))

\* a + b
Add(x, y) ==
    Val2(x, y, LAMBDA a, b :
        IF a.k = "nan" \/ b.k = "nan" THEN NaN
        ELSE IF a.k = "inf"
             THEN (IF b.k = "inf" /\ a.neg # b.neg THEN NaN ELSE a)
        ELSE IF b.k = "inf" THEN b
        ELSE IF a.m = <<>> THEN b
        ELSE IF b.m = <<>> THEN a
        ELSE LET na == Len(a.m) + a.e
                 nb == Len(b.m) + b.e
             IN  IF na - nb > Prec + 2 THEN a
                 ELSE IF nb - na > Prec + 2 THEN b
                 ELSE LET e == IF a.e < b.e THEN a.e ELSE b.e
                      IN  Val2(a.m \o Zeros(a.e - e), b.m \o Zeros(b.e - e), LAMBDA ma, mb :
                              LET c == NatCmp(ma, mb)
                              IN  IF a.neg = b.neg THEN Round(a.neg, NatAdd(ma, mb), e, FALSE)
                                  ELSE IF c = 0 THEN Zero
                                  ELSE IF c > 0 THEN Round(a.neg, NatSub(ma, mb), e, FALSE)
                                  ELSE Round(b.neg, NatSub(mb, ma), e, FALSE)))

\* a - b
Sub(x, y) == Val(y, LAMBDA b : Add(x, Negate(b)))

\* a / b
Div(x, y) ==
    Val2(x, y, LAMBDA a, b :
        IF a.k = "nan" \/ b.k = "nan" THEN NaN
        ELSE IF a.k = "inf"
             THEN (IF b.k = "inf" THEN NaN ELSE Infinity(a.neg # b.neg))
        ELSE IF b.k = "inf" THEN Zero
        ELSE IF b.m = <<>> THEN (IF a.m = <<>> THEN NaN ELSE Infinity(a.neg # b.neg))
        ELSE IF a.m = <<>> THEN Zero
        ELSE IF b.m = <<1>> THEN Round(a.neg # b.neg, a.m, a.e - b.e, FALSE)
        ELSE LET want  == Len(b.m) + Prec + 2 - Len(a.m)
                 shift == IF want > 0 THEN want ELSE 0
             IN  Val(NatDivMod(a.m \o Zeros(shift), b.m), LAMBDA qr :
                     Round(a.neg # b.neg, qr.q, a.e - b.e - shift, qr.r # <<>>)))

Square(h) == Mul(h, h)

\* acc * base^n for a natural number n, by repeated squaring
RECURSIVE PowLoop(_, _, _)
PowLoop(base, n, acc) ==
    IF n = 0 THEN acc
    ELSE IF acc.k # "fin" \/ base.k # "fin" THEN Mul(acc, base)
    ELSE PowLoop(Square(base), n \div 2, IF n % 2 = 1 THEN Mul(acc, base) ELSE acc)

PowNat(a, n) == PowLoop(a, n, One)

\* the integer value of a finite integral Number of small magnitude
IntOf(b) == NatToInt(b.m \o Zeros(b.e))

\* the exponents and bases for which the model evaluates Math.pow: integral
\* exponents up to MaxExp, and the non-integral ones whose result is not an
\* irrational number
PowInScope(x, y) ==
    Val2(x, y, LAMBDA a, b :
        \/ a.k # "fin" \/ b.k # "fin"
        \/ b.m = <<>>
        \/ b.e >= 0 /\ Len(b.m) + b.e <= 4 /\ IntOf(b) <= MaxExp
        \/ a.m = <<>>
        \/ a = One
        \/ b.e < 0 /\ a.neg)

\* Math.pow(a, b)
Pow(x, y) ==
    Val2(x, y, LAMBDA a, b :
        IF b.k = "fin" /\ b.m = <<>> THEN One
        ELSE IF a.k # "fin" \/ b.k # "fin" THEN NaN
        ELSE IF a = One THEN One
        ELSE IF a.m = <<>> THEN (IF b.neg THEN Infinity(FALSE) ELSE Zero)
        ELSE IF b.e < 0 THEN NaN
        ELSE Val(PowNat(a, IntOf(b)), LAMBDA p : IF b.neg THEN Div(One, p) ELSE p))

\* Math.round: the nearest integer, a tie towards +Infinity
MathRound(t0) ==
    Val(t0, LAMBDA t :
        IF t.k # "fin" \/ t.e >= 0 THEN t
        ELSE LET k == -t.e
             IN  Val(PadTo(t.m, k + 1), LAMBDA m :
                     LET ip   == SubSeq(m, 1, Len(m) - k)
                         f    == m[Len(m) - k + 1]
                         rest == \E i \in (Len(m) - k + 2)..Len(m) : m[i] # 0
                         up   == IF t.neg THEN f > 5 \/ (f = 5 /\ rest) ELSE f >= 5
                     IN  Finish(t.neg,
                                StripLead(IF up THEN NatAdd(StripLead(ip), <<1>>) ELSE ip),
                                0)))

\* ------------------------------------------------------------------------
\* Text
\* ------------------------------------------------------------------------

DigitChars == <<"0", "1", "2", "3", "4", "5", "6", "7", "8", "9">>

DigitSet == {DigitChars[i] : i \in 1..10}

DigitValue == [c \in DigitSet |-> CHOOSE d \in 0..9 : DigitChars[d + 1] = c]

\* String(d) for a digit d
String(d) == <<DigitChars[d + 1]>>

\* a digit sequence as text
DigitText(m) == [i \in 1..Len(m) |-> DigitChars[m[i] + 1]]

ZeroText(n) == [i \in 1..n |-> "0"]

Includes(str, c) == \E i \in 1..Len(str) : str[i] = c

ErrorText == <<"E", "r", "r", "o", "r">>

InfinityText == <<"I", "n", "f", "i", "n", "i", "t", "y">>

NaNText == <<"N", "a", "N">>

\* the one character U+221E
InfinitySign == "oo"

SignText(neg) == IF neg THEN <<"-">> ELSE <<>>

\* Number.prototype.toString
NumberToString(s0) ==
    Val(s0, LAMBDA s :
        IF s.k = "nan" THEN NaNText
        ELSE IF s.k = "inf" THEN SignText(s.neg) \o InfinityText
        ELSE IF s.m = <<>> THEN <<"0">>
        ELSE LET k  == Len(s.m)
                 n  == k + s.e
                 ds == DigitText(s.m)
             IN  IF k <= n /\ n <= 21
                    THEN SignText(s.neg) \o ds \o ZeroText(n - k)
                 ELSE IF 0 < n /\ n <= 21
                    THEN SignText(s.neg) \o SubSeq(ds, 1, n) \o <<".">> \o SubSeq(ds, n + 1, k)
                 ELSE IF -6 < n /\ n <= 0
                    THEN SignText(s.neg) \o <<"0", ".">> \o ZeroText(-n) \o ds
                 ELSE SignText(s.neg) \o <<ds[1]>>
                      \o (IF k > 1 THEN <<".">> \o SubSeq(ds, 2, k) ELSE <<>>)
                      \o <<"e", IF n - 1 >= 0 THEN "+" ELSE "-">>
                      \o DigitText(IntToNat(IF n - 1 >= 0 THEN n - 1 ELSE 1 - n)))

\* the integer part of en-US text, in groups of three
Grouped(ds) ==
    LET n == Len(ds)
        L == n + ((n - 1) \div 3)
    IN  [p \in 1..L |-> LET q == L - p
                        IN  IF q % 4 = 3 THEN "," ELSE ds[n - (q - (q \div 4))]]

\* Number.prototype.toLocaleString('en-US', { maximumSignificantDigits: 12 })
toLocaleString(s0) ==
    Val(s0, LAMBDA s :
        IF s.k = "nan" THEN NaNText
        ELSE IF s.k = "inf" THEN SignText(s.neg) \o <<InfinitySign>>
        ELSE IF s.m = <<>> THEN <<"0">>
        ELSE LET long == Len(s.m) > 12
                 keep == IF long THEN SubSeq(s.m, 1, 12) ELSE s.m
             IN  Val(IF long /\ s.m[13] >= 5 THEN NatAdd(keep, <<1>>) ELSE keep, LAMBDA m1 :
                 Val(StripTrail(m1), LAMBDA m :
                     LET e  == (IF long THEN s.e + Len(s.m) - 12 ELSE s.e) + (Len(m1) - Len(m))
                         k  == Len(m)
                         n  == k + e
                         ds == DigitText(m)
                     IN  Val2(IF n <= 0 THEN <<"0">>
                              ELSE IF n >= k THEN ds \o ZeroText(n - k)
                              ELSE SubSeq(ds, 1, n),
                              IF e >= 0 THEN <<>>
                              ELSE IF n <= 0 THEN ZeroText(-n) \o ds
                              ELSE SubSeq(ds, n + 1, k),
                              LAMBDA ip, fp :
                                  SignText(s.neg) \o Grouped(ip)
                                  \o (IF fp = <<>> THEN <<>> ELSE <<".">> \o fp)))))

\* index of the first '.' of str, 0 when there is none
DotIndex(str) ==
    IF Includes(str, ".") THEN CHOOSE i \in 1..Len(str) :
                                   str[i] = "." /\ \A j \in 1..(i - 1) : str[j] # "."
    ELSE 0

\* str without the zeros that end it, cut no further than lo characters
StripTrailChar(str, lo) ==
    SubSeq(str, 1, CHOOSE i \in lo..Len(str) :
                       /\ i = lo \/ str[i] # "0"
                       /\ \A j \in (i + 1)..Len(str) : str[j] = "0")

\* str.replace(/\.0+$/, '')
ReplaceDotZeros(str0) ==
    Val2(str0, DotIndex(str0), LAMBDA str, p :
        IF p > 0 /\ p < Len(str) /\ \A j \in (p + 1)..Len(str) : str[j] = "0"
        THEN SubSeq(str, 1, p - 1)
        ELSE str)

\* str.replace(/(\.\d*?)0+$/, '$1')
ReplaceTrailingZeros(str0) ==
    Val(str0, LAMBDA str :
        LET p == DotIndex(str)
        IN  IF p > 0 /\ p < Len(str) /\ str[Len(str)] = "0"
               /\ \A j \in (p + 1)..Len(str) : str[j] \in DigitSet
            THEN StripTrailChar(str, p)
            ELSE str)

\* Number(s) for a string s
Number(str0) ==
    Val(str0, LAMBDA str :
        LET signed == str # <<>> /\ str[1] \in {"-", "+"}
            neg    == str # <<>> /\ str[1] = "-"
        IN  Val(IF signed THEN Tail(str) ELSE str, LAMBDA body :
                LET p  == DotIndex(body)
                    ds == SelectSeq(body, LAMBDA c : c \in DigitSet)
                IN  IF str = <<>> THEN Zero
                    ELSE IF body = InfinityText THEN Infinity(neg)
                    ELSE IF /\ ds # <<>>
                            /\ \A i \in 1..Len(body) : body[i] \in DigitSet \/ i = p
                         THEN Round(neg, [i \in 1..Len(ds) |-> DigitValue[ds[i]]],
                                    IF p = 0 THEN 0 ELSE p - Len(body), FALSE)
                    ELSE NaN))

\* ------------------------------------------------------------------------
\* The engine
\* ------------------------------------------------------------------------

\* the null of op / lastOp and of rightLabel
NoOp == "null"

NoLabel == <<>>

Ops == {"+", "-", "*", "/", "^"}

createInitialState ==
    [display     |-> <<"0">>,
     prev        |-> null,
     op          |-> NoOp,
     overwrite   |-> FALSE,
     lastOp      |-> NoOp,
     lastOperand |-> null,
     error       |-> FALSE,
     rightLabel  |-> NoLabel,
     rightValue  |-> null]

toNumber(str) == Val(Number(str), LAMBDA n : IF isFinite(n) THEN n ELSE Zero)

formatNumber(n0) ==
    Val(n0, LAMBDA n :
        IF ~isFinite(n) THEN ErrorText
        ELSE Val(Div(MathRound(Mul(n, E12)), E12), LAMBDA s :
             Val(NumberToString(s), LAMBDA str :
                 IF Includes(str, "e") THEN toLocaleString(s)
                 ELSE IF Includes(str, ".")
                      THEN ReplaceTrailingZeros(ReplaceDotZeros(str))
                 ELSE str)))

\* compute with a division by zero that yields 0 instead of Infinity
computeZeroQuotient(a, b, op) ==
    CASE op = "+" -> Add(a, b)
      [] op = "-" -> Sub(a, b)
      [] op = "*" -> Mul(a, b)
      [] op = "/" -> IF IsZero(b) THEN Zero ELSE Div(a, b)
      [] op = "^" -> Pow(a, b)
      [] OTHER    -> b

compute(a, b, op) ==
    CASE op = "+" -> Add(a, b)
      [] op = "-" -> Sub(a, b)
      [] op = "*" -> Mul(a, b)
      [] op = "/" -> IF IsZero(b) THEN Infinity(FALSE) ELSE Div(a, b)
      [] op = "^" -> Pow(a, b)
      [] OTHER    -> b

\* the result state of the compute branches of setOperator and evaluate
Computed(state, a0, b0, oldOp, newOp) ==
    Val2(a0, b0, LAMBDA a, b :
        Val(compute(a, b, oldOp), LAMBDA res :
            Val(formatNumber(res), LAMBDA formatted :
                LET err == formatted = ErrorText
                IN  [display     |-> formatted,
                     prev        |-> IF err THEN null ELSE res,
                     op          |-> newOp,
                     overwrite   |-> TRUE,
                     lastOp      |-> IF err THEN NoOp ELSE oldOp,
                     lastOperand |-> IF err THEN null ELSE b,
                     error       |-> err,
                     rightLabel  |-> NoLabel,
                     rightValue  |-> null])))

\* inputDigit that keeps the percent staging when it replaces the display
inputDigitKeepsStaging(state, d) ==
    IF state.error THEN createInitialState
    ELSE IF state.overwrite \/ state.display = <<"0">>
         THEN [state EXCEPT !.display = String(d), !.overwrite = FALSE]
    ELSE IF Len(state.display) >= 16 THEN state
    ELSE [state EXCEPT !.display = state.display \o String(d),
                       !.rightLabel = NoLabel, !.rightValue = null]

\* inputDigit with the length test off by one
inputDigitCapPast16(state, d) ==
    IF state.error THEN createInitialState
    ELSE IF state.overwrite \/ state.display = <<"0">>
         THEN [state EXCEPT !.display = String(d), !.overwrite = FALSE,
                            !.rightLabel = NoLabel, !.rightValue = null]
    ELSE IF Len(state.display) > 16 THEN state
    ELSE [state EXCEPT !.display = state.display \o String(d),
                       !.rightLabel = NoLabel, !.rightValue = null]

inputDigit(state, d) ==
    IF state.error THEN createInitialState
    ELSE IF state.overwrite \/ state.display = <<"0">>
         THEN [state EXCEPT !.display = String(d), !.overwrite = FALSE,
                            !.rightLabel = NoLabel, !.rightValue = null]
    ELSE IF Len(state.display) >= 16 THEN state
    ELSE [state EXCEPT !.display = state.display \o String(d),
                       !.rightLabel = NoLabel, !.rightValue = null]

\* inputDot that clears the staged label and keeps the staged value
inputDotKeepsValue(state) ==
    IF state.error THEN createInitialState
    ELSE IF state.overwrite
         THEN [state EXCEPT !.display = <<"0", ".">>, !.overwrite = FALSE,
                            !.rightLabel = NoLabel]
    ELSE IF Includes(state.display, ".") THEN state
    ELSE [state EXCEPT !.display = state.display \o <<".">>,
                       !.rightLabel = NoLabel]

inputDot(state) ==
    IF state.error THEN createInitialState
    ELSE IF state.overwrite
         THEN [state EXCEPT !.display = <<"0", ".">>, !.overwrite = FALSE,
                            !.rightLabel = NoLabel, !.rightValue = null]
    ELSE IF Includes(state.display, ".") THEN state
    ELSE [state EXCEPT !.display = state.display \o <<".">>,
                       !.rightLabel = NoLabel, !.rightValue = null]

\* setOperator that only stages the operator and never chains
setOperatorNoChain(state, op) ==
    IF state.error THEN createInitialState
    ELSE [state EXCEPT !.prev = IF state.rightLabel # NoLabel /\ state.rightValue # null
                                THEN state.rightValue ELSE toNumber(state.display),
                       !.op = op, !.overwrite = TRUE,
                       !.rightLabel = NoLabel, !.rightValue = null]

\* setOperator that stages the operator without its first operand
setOperatorKeepsPrev(state, op) ==
    IF state.error THEN createInitialState
    ELSE IF state.op # NoOp /\ ~state.overwrite
         THEN LET a == IF state.prev # null THEN state.prev ELSE toNumber(state.display)
                  b == IF state.rightLabel # NoLabel /\ state.rightValue # null
                       THEN state.rightValue ELSE toNumber(state.display)
              IN  Computed(state, a, b, state.op, op)
    ELSE [state EXCEPT !.op = op, !.overwrite = TRUE,
                       !.rightLabel = NoLabel, !.rightValue = null]

setOperator(state, op) ==
    IF state.error THEN createInitialState
    ELSE IF state.op # NoOp /\ ~state.overwrite
         THEN LET a == IF state.prev # null THEN state.prev ELSE toNumber(state.display)
                  b == IF state.rightLabel # NoLabel /\ state.rightValue # null
                       THEN state.rightValue ELSE toNumber(state.display)
              IN  Computed(state, a, b, state.op, op)
    ELSE [state EXCEPT !.prev = IF state.rightLabel # NoLabel /\ state.rightValue # null
                                THEN state.rightValue ELSE toNumber(state.display),
                       !.op = op, !.overwrite = TRUE,
                       !.rightLabel = NoLabel, !.rightValue = null]

\* toggleSign without the error reset
toggleSignNoReset(state) ==
    IF state.display = <<"0">> THEN state
    ELSE [state EXCEPT !.display = IF state.display[1] = "-"
                                   THEN Tail(state.display)
                                   ELSE <<"-">> \o state.display]

toggleSign(state) ==
    IF state.error THEN createInitialState
    ELSE IF state.display = <<"0">> THEN state
    ELSE [state EXCEPT !.display = IF state.display[1] = "-"
                                   THEN Tail(state.display)
                                   ELSE <<"-">> \o state.display]

\* backspace that deletes a character in overwrite mode as well
backspaceDeletesInOverwrite(state) ==
    IF state.error THEN createInitialState
    ELSE IF \/ Len(state.display) <= 1
            \/ Len(state.display) = 2 /\ state.display[1] = "-"
         THEN [state EXCEPT !.display = <<"0">>]
    ELSE [state EXCEPT !.display = SubSeq(state.display, 1, Len(state.display) - 1)]

backspace(state) ==
    IF state.error THEN createInitialState
    ELSE IF state.overwrite
         THEN [state EXCEPT !.display = <<"0">>, !.overwrite = FALSE]
    ELSE IF \/ Len(state.display) <= 1
            \/ Len(state.display) = 2 /\ state.display[1] = "-"
         THEN [state EXCEPT !.display = <<"0">>]
    ELSE [state EXCEPT !.display = SubSeq(state.display, 1, Len(state.display) - 1)]

clearAll == createInitialState

\* evaluate that sets overwrite when there is nothing to compute
evaluateSetsOverwrite(state) ==
    IF state.error THEN createInitialState
    ELSE IF state.op # NoOp /\ state.rightLabel # NoLabel
         THEN LET a == IF state.prev # null THEN state.prev ELSE toNumber(state.display)
                  b == IF state.rightValue # null
                       THEN state.rightValue ELSE toNumber(state.display)
              IN  Computed(state, a, b, state.op, NoOp)
    ELSE IF state.op = NoOp /\ state.rightLabel # NoLabel
         THEN Val(IF state.rightValue # null THEN state.rightValue
                  ELSE Div(toNumber(state.display), Hundred), LAMBDA b :
                  Val(formatNumber(b), LAMBDA formatted :
                      LET err == formatted = ErrorText
                      IN  [display     |-> formatted,
                           prev        |-> IF err THEN null ELSE b,
                           op          |-> NoOp,
                           overwrite   |-> TRUE,
                           lastOp      |-> NoOp,
                           lastOperand |-> null,
                           error       |-> err,
                           rightLabel  |-> NoLabel,
                           rightValue  |-> null]))
    ELSE IF state.op # NoOp
         THEN LET a == IF state.prev # null THEN state.prev ELSE toNumber(state.display)
                  b == IF state.rightLabel # NoLabel /\ state.rightValue # null
                       THEN state.rightValue ELSE toNumber(state.display)
              IN  Computed(state, a, b, state.op, NoOp)
    ELSE IF state.lastOp # NoOp /\ state.lastOperand # null
         THEN Computed(state, toNumber(state.display), state.lastOperand,
                       state.lastOp, NoOp)
    ELSE [state EXCEPT !.overwrite = TRUE]

evaluate(state) ==
    IF state.error THEN createInitialState
    ELSE IF state.op # NoOp /\ state.rightLabel # NoLabel
         THEN LET a == IF state.prev # null THEN state.prev ELSE toNumber(state.display)
                  b == IF state.rightValue # null
                       THEN state.rightValue ELSE toNumber(state.display)
              IN  Computed(state, a, b, state.op, NoOp)
    ELSE IF state.op = NoOp /\ state.rightLabel # NoLabel
         THEN Val(IF state.rightValue # null THEN state.rightValue
                  ELSE Div(toNumber(state.display), Hundred), LAMBDA b :
                  Val(formatNumber(b), LAMBDA formatted :
                      LET err == formatted = ErrorText
                      IN  [display     |-> formatted,
                           prev        |-> IF err THEN null ELSE b,
                           op          |-> NoOp,
                           overwrite   |-> TRUE,
                           lastOp      |-> NoOp,
                           lastOperand |-> null,
                           error       |-> err,
                           rightLabel  |-> NoLabel,
                           rightValue  |-> null]))
    ELSE IF state.op # NoOp
         THEN LET a == IF state.prev # null THEN state.prev ELSE toNumber(state.display)
                  b == IF state.rightLabel # NoLabel /\ state.rightValue # null
                       THEN state.rightValue ELSE toNumber(state.display)
              IN  Computed(state, a, b, state.op, NoOp)
    ELSE IF state.lastOp # NoOp /\ state.lastOperand # null
         THEN Computed(state, toNumber(state.display), state.lastOperand,
                       state.lastOp, NoOp)
    ELSE state

\* percent that writes the percent value to the display
percentOnDisplay(state) ==
    IF state.error THEN createInitialState
    ELSE Val(toNumber(state.display), LAMBDA cur :
             LET base == IF state.prev # null THEN state.prev ELSE toNumber(state.display)
             IN  Val(IF state.op # NoOp
                     THEN (IF state.op = "*" \/ state.op = "/"
                           THEN Div(cur, Hundred)
                           ELSE Div(Mul(base, cur), Hundred))
                     ELSE Div(cur, Hundred), LAMBDA val :
                     LET formatted == formatNumber(val)
                         err       == formatted = ErrorText
                     IN  [state EXCEPT !.display = formatted,
                                       !.overwrite = TRUE,
                                       !.error = err,
                                       !.rightLabel = formatNumber(cur) \o <<"%">>,
                                       !.rightValue = val]))

percent(state) ==
    IF state.error THEN createInitialState
    ELSE Val(toNumber(state.display), LAMBDA cur :
             LET base == IF state.prev # null THEN state.prev ELSE toNumber(state.display)
             IN  Val(IF state.op # NoOp
                     THEN (IF state.op = "*" \/ state.op = "/"
                           THEN Div(cur, Hundred)
                           ELSE Div(Mul(base, cur), Hundred))
                     ELSE Div(cur, Hundred), LAMBDA val :
                     LET formatted == formatNumber(val)
                         err       == formatted = ErrorText
                     IN  [state EXCEPT !.display = state.display,
                                       !.overwrite = TRUE,
                                       !.error = err,
                                       !.rightLabel = formatNumber(cur) \o <<"%">>,
                                       !.rightValue = val]))

\* the null that preview returns
NoPreview == [kind |-> "null"]

preview(state) ==
    IF state.op # NoOp
    THEN IF state.rightLabel # NoLabel
         THEN Val2(IF state.prev # null THEN state.prev ELSE toNumber(state.display),
                   IF state.rightValue # null
                   THEN state.rightValue ELSE toNumber(state.display),
                   LAMBDA a, b :
                       Val(formatNumber(b), LAMBDA str :
                           [a |-> a, b |-> b, bLabel |-> state.rightLabel,
                            op |-> state.op, result |-> b, resultStr |-> str,
                            error |-> str = ErrorText, kind |-> "percent"]))
         ELSE Val2(IF state.prev # null THEN state.prev ELSE toNumber(state.display),
                   toNumber(state.display),
                   LAMBDA a, b :
                       Val(compute(a, b, state.op), LAMBDA res :
                           Val(formatNumber(res), LAMBDA str :
                               [a |-> a, b |-> b, bLabel |-> NoLabel,
                                op |-> state.op, result |-> res, resultStr |-> str,
                                error |-> str = ErrorText, kind |-> "binary"])))
    ELSE IF state.rightLabel # NoLabel /\ state.op = NoOp
         THEN Val(IF state.rightValue # null THEN state.rightValue
                  ELSE Div(toNumber(state.display), Hundred), LAMBDA b :
                  Val(formatNumber(b), LAMBDA str :
                      [a |-> null, b |-> b, bLabel |-> state.rightLabel,
                       op |-> NoOp, result |-> b, resultStr |-> str,
                       error |-> str = ErrorText, kind |-> "percentUnary"]))
    ELSE IF state.lastOp # NoOp /\ state.lastOperand # null
         THEN Val2(toNumber(state.display), state.lastOperand, LAMBDA a, b :
                  Val(compute(a, b, state.lastOp), LAMBDA res :
                      Val(formatNumber(res), LAMBDA str :
                          [a |-> a, b |-> b, bLabel |-> NoLabel,
                           op |-> state.lastOp, result |-> res, resultStr |-> str,
                           error |-> str = ErrorText, kind |-> "repeat"])))
    ELSE NoPreview

\* `${op}` of an operator or of null
OpText(op) == IF op = NoOp THEN <<"n", "u", "l", "l">> ELSE <<op>>

\* the history line `${formatNumber(p.a)} ${p.op} ${formatNumber(p.b)} = ${next.display}`
HistoryEntry(p, next) ==
    formatNumber(p.a) \o <<" ">> \o OpText(p.op) \o <<" ">> \o formatNumber(p.b)
    \o <<" ", "=", " ">> \o next.display

\* onEqual with no unary function pending: the history after '=' on state s
onEqual(h, s) ==
    Val2(preview(s), evaluate(s), LAMBDA p, next :
        IF p # NoPreview THEN <<HistoryEntry(p, next)>> \o h ELSE h)

\* ------------------------------------------------------------------------
\* The shell's state slot and the key presses
\* ------------------------------------------------------------------------

VARIABLES state, key, budget, history

vars == <<state, key, budget, history>>

\* operand A and operand B of a pending operation
LeftOperand(s) == IF s.prev # null THEN s.prev ELSE toNumber(s.display)

RightOperand(s) ==
    IF s.rightLabel # NoLabel /\ s.rightValue # null
    THEN s.rightValue ELSE toNumber(s.display)

\* the states whose pending or repeated '^' the model evaluates
Modelled(s) ==
    /\ s.op = "^" => PowInScope(LeftOperand(s), RightOperand(s))
    /\ (s.op = NoOp /\ s.lastOp = "^" /\ s.lastOperand # null)
          => PowInScope(toNumber(s.display), s.lastOperand)

\* the state after typing the digit d n times from the initial state
RECURSIVE Typed(_, _)
Typed(d, n) == IF n = 0 THEN createInitialState ELSE inputDigit(Typed(d, n - 1), d)

LongDigit == CHOOSE d \in Digits : \A c \in Digits : c <= d

\* the state after typing the digits ds in state s
RECURSIVE TypeDigits(_, _)
TypeDigits(s, ds) ==
    IF ds = <<>> THEN s ELSE TypeDigits(inputDigit(s, Head(ds)), Tail(ds))

\* the state after the keys 3 3 ^ 2 0 2 + 3: the power 33^202 (about 5.5e306)
\* is staged as the first operand of '+' and a second operand is being typed
NearOverflow ==
    inputDigit(
        setOperator(
            TypeDigits(setOperator(TypeDigits(createInitialState, <<3, 3>>), "^"),
                       <<2, 0, 2>>),
            "+"),
        3)

Init ==
    /\ \/ state = createInitialState /\ budget = MaxKeys
       \/ state \in {Typed(LongDigit, n) : n \in LongLen..16} /\ budget = LongKeys
       \/ state = NearOverflow /\ budget = OverflowKeys
    /\ key = "none"
    /\ history = <<>>

Press(next, k) ==
    /\ budget > 0
    /\ state' = next
    /\ key' = k
    /\ budget' = budget - 1

InputDigit ==
    /\ \E d \in Digits : Press(inputDigit(state, d), DigitChars[d + 1])
    /\ UNCHANGED history

InputDot == Press(inputDot(state), ".") /\ UNCHANGED history

SetOperator ==
    /\ \E op \in Ops : Modelled(state) /\ Press(setOperator(state, op), op)
    /\ UNCHANGED history

ToggleSign == Press(toggleSign(state), "sign") /\ UNCHANGED history

Backspace == Press(backspace(state), "backspace") /\ UNCHANGED history

ClearAll == Press(clearAll, "clear") /\ UNCHANGED history

Evaluate ==
    /\ Modelled(state)
    /\ Press(evaluate(state), "=")
    /\ history' = onEqual(history, state)

Percent == Press(percent(state), "%") /\ UNCHANGED history

Next ==
    \/ InputDigit
    \/ InputDot
    \/ SetOperator
    \/ ToggleSign
    \/ Backspace
    \/ ClearAll
    \/ Evaluate
    \/ Percent

Spec == Init /\ [][Next]_vars

\* ------------------------------------------------------------------------
\* Properties
\* ------------------------------------------------------------------------

AllDigits == 0..9

\* the text is a run of typed digits
IsDigits(str) == str # <<>> /\ \A i \in 1..Len(str) : str[i] \in DigitSet

\* the number a reader takes the display to show: the grouping commas of a
\* large result are not part of its value
DisplayValue(str) == Number(SelectSeq(str, LAMBDA c : c # ","))

\* a second operand was typed after an operator, and no percent is staged
SecondOperandEntered(s) ==
    /\ ~s.error
    /\ s.op \in Ops
    /\ s.prev # null
    /\ ~s.overwrite
    /\ s.rightLabel = NoLabel
    /\ s.rightValue = null

\* C1: in a state with error = true every transition (any digit, the point,
\* any operator, percent, toggle sign, backspace, evaluate) returns exactly
\* the initial state, so the pressed key is discarded.
C1_ErrorReset ==
    state.error =>
        /\ \A d \in AllDigits : inputDigit(state, d) = createInitialState
        /\ inputDot(state) = createInitialState
        /\ \A op \in Ops : setOperator(state, op) = createInitialState
        /\ percent(state) = createInitialState
        /\ toggleSign(state) = createInitialState
        /\ backspace(state) = createInitialState
        /\ evaluate(state) = createInitialState

\* a digit other than 0 was pressed and left the initial state behind it:
\* the press met a state with error = true
C1_Witness ==
    /\ state = createInitialState
    /\ key \in DigitSet \ {"0"}

\* C2: with a second operand b typed as digits after "a o1", setOperator(o2)
\* first evaluates a o1 b; when the result r is finite the new state has
\* prev = r, op = o2, display = formatNumber(r), overwrite = true,
\* lastOp = o1, lastOperand = b and no percent staged.
C2_OperatorChaining ==
    [][(/\ SecondOperandEntered(state)
        /\ IsDigits(state.display)
        /\ key' \in Ops)
       => LET b == toNumber(state.display)
              r == compute(state.prev, b, state.op)
          IN  isFinite(r) =>
                  /\ state'.prev = r
                  /\ state'.op = key'
                  /\ state'.display = formatNumber(r)
                  /\ state'.overwrite
                  /\ state'.lastOp = state.op
                  /\ state'.lastOperand = b
                  /\ state'.rightLabel = NoLabel
                  /\ state'.rightValue = null]_vars

\* 2 + 3 followed by '*': 5 is staged for the multiplication
C2_Witness ==
    /\ key = "*"
    /\ state.op = "*"
    /\ state.prev = toNumber(<<"5">>)
    /\ state.display = <<"5">>
    /\ state.lastOp = "+"
    /\ state.lastOperand = toNumber(<<"3">>)
    /\ state.overwrite

\* C3: evaluate after "a o b" with a finite result leaves op absent and
\* (lastOp, lastOperand) = (o, b); every further evaluate with no pending
\* operator and no staged percent re-applies lastOp with lastOperand to the
\* value the display shows and displays the result, also after a new number
\* was typed.
C3_RepeatEquals ==
    /\ (SecondOperandEntered(state) /\ Modelled(state)) =>
           LET b == toNumber(state.display)
               t == evaluate(state)
           IN  isFinite(compute(state.prev, b, state.op)) =>
                   t.op = NoOp /\ t.lastOp = state.op /\ t.lastOperand = b
    /\ (/\ ~state.error
        /\ state.op = NoOp
        /\ state.rightLabel = NoLabel
        /\ state.lastOp \in Ops
        /\ state.lastOperand # null
        /\ Modelled(state)
        /\ state.lastOp = "^" => PowInScope(DisplayValue(state.display), state.lastOperand)) =>
           evaluate(state).display =
               formatNumber(compute(DisplayValue(state.display),
                                    state.lastOperand, state.lastOp))

\* C4: with op '+' or '-', prev = A staged and the display showing c, percent
\* stages rightValue = A * c / 100 and a following evaluate displays
\* formatNumber(A op (A * c / 100)).
C4_PercentAdditive ==
    (/\ ~state.error
     /\ state.op \in {"+", "-"}
     /\ state.prev # null) =>
        LET A == state.prev
            c == DisplayValue(state.display)
            v == Div(Mul(A, c), Hundred)
        IN  /\ percent(state).rightValue = v
            /\ evaluate(percent(state)).display = formatNumber(compute(A, v, state.op))

\* C5: with op '*' or '/', prev = A staged and the display showing c, percent
\* stages rightValue = c / 100 and a following evaluate displays
\* formatNumber(A op (c / 100)).
C5_PercentMultiplicative ==
    (/\ ~state.error
     /\ state.op \in {"*", "/"}
     /\ state.prev # null) =>
        LET A == state.prev
            c == DisplayValue(state.display)
            v == Div(c, Hundred)
        IN  /\ percent(state).rightValue = v
            /\ evaluate(percent(state)).display = formatNumber(compute(A, v, state.op))

\* C6: a division whose typed second operand is zero makes evaluate and a
\* further setOperator return error = true, display = "Error" and prev,
\* lastOp, lastOperand absent; a pending operation with a finite result
\* instead sets prev to the result, overwrite = true and error = false.
C6_DivisionByZero ==
    [][(/\ SecondOperandEntered(state)
        /\ key' \in Ops \cup {"="})
       => LET b == toNumber(state.display)
              r == compute(state.prev, b, state.op)
          IN  /\ (state.op = "/" /\ IsZero(b)) =>
                     /\ state'.error
                     /\ state'.display = ErrorText
                     /\ state'.prev = null
                     /\ state'.lastOp = NoOp
                     /\ state'.lastOperand = null
              /\ isFinite(r) =>
                     /\ state'.prev = r
                     /\ state'.overwrite
                     /\ ~state'.error]_vars

\* "a / 0 =" was pressed and the engine shows Error
C6_Witness ==
    /\ key = "="
    /\ state.error
    /\ state.display = ErrorText
    /\ state.prev = null

\* C7: in a non-error state with overwrite = false, display # "0" and 16 or
\* more characters, inputDigit returns the state unchanged for every digit;
\* and inputDigit never takes a display of at most 16 characters past 16.
C7_DigitCap ==
    /\ (/\ ~state.error
        /\ ~state.overwrite
        /\ state.display # <<"0">>
        /\ Len(state.display) >= 16) =>
           \A d \in AllDigits : inputDigit(state, d) = state
    /\ Len(state.display) <= 16 =>
           \A d \in AllDigits : Len(inputDigit(state, d).display) <= 16

\* two more digits were pressed on a typed display of 15 or 16 digits: the
\* later one met the cap
C7_Witness ==
    /\ state = Typed(LongDigit, 16)
    /\ key \in DigitSet
    /\ budget = LongKeys - 2

\* C8: display has at most 16 characters in every reachable state.
C8_DisplayAtMost16 == Len(state.display) <= 16

\* the display has no leading zero: "0", "0." and "0.ddd" are the only texts
\* that start with 0, a sign aside, and "-0" is not among them
NoLeadingZero(str) ==
    LET signed == str # <<>> /\ str[1] = "-"
        body   == IF signed THEN Tail(str) ELSE str
    IN  /\ (Len(body) >= 2 /\ body[1] = "0") => body[2] = "."
        /\ ~(signed /\ body = <<"0">>)

\* C9: in every reachable non-error state the display has no leading zero
\* other than in "0" and "0." followed by fraction digits; no display is
\* "-0", "0d" or "-0d".
C9_NoLeadingZeros == ~state.error => NoLeadingZero(state.display)

\* C10: rightLabel is present if and only if rightValue is present.
C10_LabelIffValue == (state.rightLabel # NoLabel) <=> (state.rightValue # null)

\* percent was pressed and staged both the label and the value
C10_Witness ==
    /\ key = "%"
    /\ state.rightLabel # NoLabel
    /\ state.rightValue # null

\* C11: in every reachable state with error = false the display is text
\* that Number parses to a finite number, so that toNumber does not fall
\* back to 0 for it.
C11_DisplayParses == ~state.error => isFinite(Number(state.display))

\* C12: for every non-error state with overwrite = true, backspace returns
\* display = "0" and overwrite = false and leaves prev, op, lastOp,
\* lastOperand and error unchanged.
C12_BackspaceCancelsOverwrite ==
    (~state.error /\ state.overwrite) =>
        LET t == backspace(state)
        IN  /\ t.display = <<"0">>
            /\ ~t.overwrite
            /\ t.prev = state.prev
            /\ t.op = state.op
            /\ t.lastOp = state.lastOp
            /\ t.lastOperand = state.lastOperand
            /\ t.error = state.error

\* a nonzero digit, an operator and then backspace were pressed: the staged
\* operand and operator are kept, the display is "0" and overwrite is off
C12_Witness ==
    /\ key = "backspace"
    /\ budget = MaxKeys - 3
    /\ state.op \in Ops
    /\ state.prev \notin {null, Zero}
    /\ state.display = <<"0">>
    /\ ~state.overwrite

\* C13: with no operator pending and the display showing c, percent followed
\* by evaluate displays formatNumber(c / 100), whatever lastOp / lastOperand
\* are remembered, sets overwrite = true and clears the percent staging.
C13_StandalonePercent ==
    (~state.error /\ state.op = NoOp) =>
        LET c == DisplayValue(state.display)
            t == evaluate(percent(state))
        IN  /\ t.display = formatNumber(Div(c, Hundred))
            /\ t.overwrite
            /\ t.rightLabel = NoLabel
            /\ t.rightValue = null

\* C14: for every reachable non-error state for which preview is not null,
\* the resultStr of preview is the display that evaluate commits.
C14_PreviewAgrees ==
    (~state.error /\ Modelled(state) /\ preview(state) # NoPreview) =>
        preview(state).resultStr = evaluate(state).display

\* C15: after "a o1 b" with b typed, percent and then setOperator(o2) evaluate
\* the pending operation with the staged percent value as operand B: when
\* r = a o1 rightValue is finite, prev = r and op = o2.
C15_PercentChaining ==
    [][(/\ SecondOperandEntered(state)
        /\ key' = "%"
        /\ ~state'.error
        /\ Modelled(state'))
       => \A o2 \in Ops :
              LET r == compute(state.prev, state'.rightValue, state.op)
                  t == setOperator(state', o2)
              IN  isFinite(r) => t.prev = r /\ t.op = o2]_vars

\* the percent value of c for the pending operator: literal for '*', '/' and
\* for no operator, relative to the first operand otherwise
PercentValue(s, c) ==
    IF s.op = NoOp \/ s.op = "*" \/ s.op = "/"
    THEN Div(c, Hundred)
    ELSE Div(Mul(IF s.prev # null THEN s.prev ELSE c, c), Hundred)

\* C16: for every non-error state, percent leaves display, prev, op, lastOp
\* and lastOperand unchanged, sets overwrite = true, sets rightLabel to the
\* formatted value of the display followed by '%' and rightValue to the
\* percent value computed from it.
C16_PercentOnlyStages ==
    ~state.error =>
        LET c == DisplayValue(state.display)
            t == percent(state)
        IN  /\ t.display = state.display
            /\ t.prev = state.prev
            /\ t.op = state.op
            /\ t.lastOp = state.lastOp
            /\ t.lastOperand = state.lastOperand
            /\ t.overwrite
            /\ t.rightLabel = formatNumber(c) \o <<"%">>
            /\ t.rightValue = PercentValue(state, c)

\* C17: on every reachable non-error state toggleSign returns the state
\* itself when the display is "0", otherwise it adds or removes one leading
\* '-' and changes no other field; applied twice it returns the same state.
C17_ToggleSignInvolution ==
    ~state.error =>
        LET t == toggleSign(state)
        IN  /\ state.display = <<"0">> => t = state
            /\ state.display # <<"0">> =>
                   t = [state EXCEPT !.display = IF state.display[1] = "-"
                                                  THEN Tail(state.display)
                                                  ELSE <<"-">> \o state.display]
            /\ toggleSign(t) = state

\* C18: for every reachable non-error state and every digit d,
\* inputDigit(state, d) and inputDot(state) have rightLabel and rightValue
\* absent, the rejected inputs included.
C18_TypingClearsPercent ==
    ~state.error =>
        /\ \A d \in AllDigits :
               LET t == inputDigit(state, d)
               IN  t.rightLabel = NoLabel /\ t.rightValue = null
        /\ LET t == inputDot(state)
           IN  t.rightLabel = NoLabel /\ t.rightValue = null

\* a percent is staged and backspace has switched overwrite off: the next
\* digit or point takes the branches that test the display
C18_Witness ==
    /\ key = "backspace"
    /\ ~state.error
    /\ ~state.overwrite
    /\ state.rightLabel # NoLabel
    /\ state.rightValue # null

\* no operator is pending, no percent is staged and no lastOp / lastOperand
\* pair is remembered
NothingToCompute(s) ==
    /\ s.op = NoOp
    /\ s.rightLabel = NoLabel
    /\ ~(s.lastOp # NoOp /\ s.lastOperand # null)

\* C19 as stated: on every reachable non-error state, '=' returns the state
\* unchanged if and only if there is nothing to compute, and preview returns
\* null on exactly those states.
C19_NoOpIffNothingToCompute ==
    [][(key' = "=" /\ ~state.error)
       => /\ (state' = state) <=> NothingToCompute(state)
          /\ (preview(state) = NoPreview) <=> NothingToCompute(state)]_vars

\* C19 amended: on every reachable non-error state, '=' returns the state
\* unchanged when there is nothing to compute, and otherwise returns a result
\* state with op absent, overwrite = true and the percent staging cleared
\* (which may equal the state it started from); preview returns null exactly
\* when there is nothing to compute.
C19_NoOpWhenNothingToCompute ==
    [][(key' = "=" /\ ~state.error)
       => /\ NothingToCompute(state) => state' = state
          /\ ~NothingToCompute(state) =>
                 /\ state'.op = NoOp
                 /\ state'.overwrite
                 /\ state'.rightLabel = NoLabel
                 /\ state'.rightValue = null
          /\ (preview(state) = NoPreview) <=> NothingToCompute(state)]_vars

\* a digit was typed and '=' pressed with nothing to compute: the typed
\* display stands and nothing was logged
C19_Witness ==
    /\ key = "="
    /\ budget = MaxKeys - 2
    /\ NothingToCompute(state)
    /\ ~state.error
    /\ ~state.overwrite
    /\ state.display # <<"0">>
    /\ history = <<>>

\* C20: pressing '=' in a state where evaluate only resets from error = true,
\* or has nothing to compute, appends nothing to the history.
C20_HistoryOnlyOnResult ==
    [][(key' = "=" /\ (state.error \/ NothingToCompute(state)))
       => history' = history]_vars

\* C21: in every reachable state, error = true if and only if the display is
\* the text "Error".
C21_ErrorIffErrorText == state.error <=> state.display = ErrorText

\* C22: in every reachable non-error state with rightValue present, overwrite
\* is true and rightLabel is the formatted value of the display followed by
\* '%'.
C22_StagedPercentIsCurrent ==
    (~state.error /\ state.rightValue # null) =>
        /\ state.overwrite
        /\ state.rightLabel = formatNumber(DisplayValue(state.display)) \o <<"%">>

\* C23: in every reachable state with error = false, a pending operator has
\* its first operand: op present implies prev is a number.
C23_PendingOperatorHasPrev ==
    (~state.error /\ state.op # NoOp) => isFinite(state.prev)

\* an operator was chained after a finished operation: the result is staged
\* as the first operand of the new operator
C23_Witness ==
    /\ key \in Ops
    /\ ~state.error
    /\ state.op = key
    /\ state.lastOp # NoOp
    /\ state.prev # null
    /\ state.overwrite

\* C24 as stated: for every reachable non-error state s,
\* percent(percent(s)) = percent(s).
C24_PercentIdempotent ==
    [][(key' = "%" /\ ~state.error) => percent(state') = state']_vars

\* C24 amended: for every reachable non-error state s whose percent is not an
\* error state, percent(percent(s)) = percent(s).
C24_PercentIdempotentUnlessError ==
    [][(key' = "%" /\ ~state.error /\ ~state'.error) => percent(state') = state']_vars

\* percent was pressed with an operator pending and a nonzero second operand
\* typed, and staged a finite value
C24_Witness ==
    /\ key = "%"
    /\ ~state.error
    /\ state.op \in Ops
    /\ state.display \notin {<<"0">>, <<"-", "0">>}
    /\ isFinite(state.rightValue)
    /\ ~IsZero(state.rightValue)

====
